---- MODULE Spec2Model ----
(***************************************************************************)
(* A model of the restore client of pkg/restore (client.go, db.go).        *)
(*                                                                         *)
(* Each operation of the client is modelled as a group of actions over its *)
(* own variables, and each group has its own specification:                *)
(*   SpecRestore, FairRestore,  Client.RestoreFiles, Client.setSpeedLimit  *)
(*   SpecRestoreOpen                                                       *)
(*   SpecChecksum, FairChecksum Client.ValidateChecksum                    *)
(*   SpecSwitch                 Client.switchTiKVMode                      *)
(*   SpecResetTS                Client.ResetTS                             *)
(*   SpecDDL, SpecFilter        FilterDDLJobs (db.go), Client.ExecDDLs     *)
(*   SpecCreateTables           Client.CreateTables                        *)
(* In the specification of one operation the variables of the others keep  *)
(* their idle values.                                                      *)
(***************************************************************************)
EXTENDS Integers, Sequences, FiniteSets, TLC

\* ------------------------------------------------------------------ bounds
MaxFiles == 2
MaxWorkers == 2
MaxCalls == 2
MaxStores == 2

Calls == 1..MaxCalls
Files == 1..MaxFiles
Stores == 1..MaxStores

VARIABLES
    \* ---- Client fields (client.go:35-51)
    ctxDone,          \* rc.ctx is cancelled
    hasSpeedLimited,  \* rc.hasSpeedLimited
    rateLimit,        \* rc.rateLimit
    poolWidth,        \* width of rc.workerPool (SetConcurrency)
    \* ---- the cluster as PD reports it
    tombstone,        \* tombstone[s]: store s is a tombstone
    speedCalls,       \* speedCalls[s]: set-download-speed-limit RPCs issued to s
    speedFailed,      \* number of setSpeedLimit passes that returned an error
    \* ---- RestoreFiles, the calling goroutine (the call in progress, or the
    \* ---- last one when mainPc = "idle")
    callIdx,          \* number of RestoreFiles calls started on this client
    files,            \* len(files)
    mainPc,           \* "idle" | "speed" | "dispatch" | "collect" | "wait"
    dispIdx,          \* files handed to workerPool.Apply so far
    recvCnt,          \* completed iterations of `for range files`
    errCh,            \* the buffered channel errCh
    wg,               \* the WaitGroup counter
    ret,              \* "none" | "nil" | "err"
    ctxAtStart,       \* rc.ctx was already cancelled when the call began
    \* ---- RestoreFiles, the pool tasks of that call
    taskPc,           \* taskPc[f]: "none"|"import"|"select"|"update"|"done"
    importRes,        \* importRes[f]: "na" | "nil" | "err"
    sent,             \* sent[f]: values the task sent on errCh
    updates,          \* updates[f]: values the task sent on updateCh
    lingering,        \* tasks of earlier calls still before their updateCh send
    \* ---- ValidateChecksum
    ckN,              \* len(tables)
    ckCluster,        \* ckCluster[i]: the checksum the cluster holds for table i
    ckDispPc,         \* the dispatching goroutine: "dispatch" | "wait" | "closed"
    ckDispIdx,        \* tables handed to workers.Apply so far
    ckWg,             \* the WaitGroup counter
    ckMainPc,         \* the caller: "range" | "returned"
    ckRet,            \* "none" | "nil" | the error returned
    ckTaskPc,         \* ckTaskPc[i]: "none"|"getTS"|"exec"|"sendErr"|"update"|"done"
    ckOutcome,        \* ckOutcome[i]: "none"|"tsErr"|"buildErr"|"execErr"|"resp"
    ckResp,           \* ckResp[i]: the ChecksumResponse of table i, or NoResp
    ckPending,        \* ckPending[i]: the error the task is sending on errCh
    ckTsCalls,        \* ckTsCalls[i]: rc.GetTS calls made for table i
    ckExecs,          \* ckExecs[i]: exe.Execute calls made for table i
    ckUpdates,        \* ckUpdates[i]: values the task sent on updateCh
    \* ---- switchTiKVMode
    storeMode,        \* storeMode[s]: the mode store s is in
    swCalls,          \* number of switchTiKVMode calls started
    swPc,             \* "idle" | "list" | "loop"
    swMode,           \* the mode argument of the call
    swStores,         \* the stores GetAllStores returned to the call
    swIdx,            \* completed iterations of `for _, store := range stores`
    swDialed,         \* swDialed[s]: grpc.DialContext calls of the call to s
    swRequests,       \* swRequests[s]: SwitchMode requests of the call to s
    swFailedAt,       \* position in swStores of the store that failed, or 0
    swRet,            \* "none" | "nil" | "err"
    \* ---- ResetTS
    pdAddrs,          \* the pdAddrs argument
    rsPc,             \* "retry" | "done"
    rsI,              \* the local variable i captured by the retried closure
    rsAttempts,       \* failed attempts so far
    rsLog,            \* the endpoint each attempt was sent to, in order
    rsRet,            \* "none" | "nil" | "err"
    \* ---- FilterDDLJobs and ExecDDLs
    allDDLJobs,       \* the DDL history of the backup (the allDDLJobs slice)
    ddlTables,        \* the tables to restore (the tables argument)
    ddlInput,         \* allDDLJobs as it was when FilterDDLJobs was called
    ddlPc,            \* "backup" | "filtered" | "exec" | "returned"
    ddlJobs,          \* what FilterDDLJobs returned; the slice ExecDDLs sorts
    execLog,          \* the jobs handed to rc.db.ExecDDL, in order
    execRet,          \* "none" | "nil" | "err"
    \* ---- CreateTables
    ctTables,         \* the tables argument
    ctNewTS,          \* the newTS argument
    ctPc,             \* "loop" | "returned"
    ctIdx,            \* completed iterations of `for _, table := range tables`
    ctCreated,        \* the tables rc.db.CreateTable created, in order
    ctSchemas,        \* ctSchemas[i]: what GetTableSchema returned for tables[i]
    ctRules,          \* the local rewriteRules
    ctNewTables,      \* the local newTables
    ctRet             \* "none" | [rules, tables, err]

clientVars == <<ctxDone, hasSpeedLimited, rateLimit, poolWidth>>
pdVars == <<tombstone>>
clusterVars == <<pdVars, speedCalls, speedFailed>>
mainVars == <<callIdx, files, mainPc, dispIdx, recvCnt, errCh, wg, ret, ctxAtStart>>
taskVars == <<taskPc, importRes, sent, updates, lingering>>
restoreVars == <<clientVars, clusterVars, mainVars, taskVars>>

ckMainVars == <<ckN, ckCluster, ckDispPc, ckDispIdx, ckWg, ckMainPc, ckRet>>
ckTaskVars == <<ckTaskPc, ckOutcome, ckResp, ckPending, ckTsCalls, ckExecs, ckUpdates>>
checksumVars == <<ckMainVars, ckTaskVars>>

switchVars == <<storeMode, swCalls, swPc, swMode, swStores, swIdx, swDialed,
                swRequests, swFailedAt, swRet>>
resetVars == <<pdAddrs, rsPc, rsI, rsAttempts, rsLog, rsRet>>
ddlVars == <<allDDLJobs, ddlTables, ddlInput, ddlPc, ddlJobs, execLog, execRet>>
createVars == <<ctTables, ctNewTS, ctPc, ctIdx, ctCreated, ctSchemas, ctRules,
                ctNewTables, ctRet>>

vars == <<restoreVars, checksumVars, switchVars, resetVars, ddlVars, createVars>>

\* What the actions of one operation leave alone.
notRestoreVars == <<checksumVars, switchVars, resetVars, ddlVars, createVars>>
notChecksumVars == <<restoreVars, switchVars, resetVars, ddlVars, createVars>>
notSwitchVars == <<clientVars, speedCalls, speedFailed, mainVars, taskVars,
                   checksumVars, resetVars, ddlVars, createVars>>
notResetVars == <<restoreVars, checksumVars, switchVars, ddlVars, createVars>>
notDDLVars == <<restoreVars, checksumVars, switchVars, resetVars, createVars>>
notCreateVars == <<restoreVars, checksumVars, switchVars, resetVars, ddlVars>>

\* ------------------------------------------------------------ helpers
RECURSIVE SeqOfSet(_)
\* The elements of a finite set of integers in ascending order.
SeqOfSet(S) ==
    IF S = {} THEN <<>>
    ELSE LET m == CHOOSE x \in S : \A y \in S : x <= y
         IN <<m>> \o SeqOfSet(S \ {m})

\* pdClient.GetAllStores(ctx, pd.WithExcludeTombstone()): the live stores.
GetAllStores == SeqOfSet({s \in Stores : ~tombstone[s]})

\* The tasks of the call that are at pc.
TasksAt(pcs) == {f \in Files : taskPc[f] \in pcs}

\* utils.WorkerPool: the number of workers held by a task that has not
\* finished (tasks of this call and of earlier calls).
Running == Cardinality(TasksAt({"import", "select", "update"})) + lingering

\* ------------------------------------------------------ NewRestoreClient
InitClient ==
    /\ ctxDone = FALSE
    /\ hasSpeedLimited = FALSE
    /\ rateLimit \in {0, 128}
    /\ poolWidth \in 1..MaxWorkers

NoTasks ==
    /\ taskPc = [f \in Files |-> "none"]
    /\ importRes = [f \in Files |-> "na"]
    /\ sent = [f \in Files |-> 0]
    /\ updates = [f \in Files |-> 0]

InitRestoreFiles ==
    /\ callIdx = 0
    /\ files = 0
    /\ mainPc = "idle"
    /\ dispIdx = 0
    /\ recvCnt = 0
    /\ errCh = <<>>
    /\ wg = 0
    /\ ret = "none"
    /\ ctxAtStart = FALSE
    /\ NoTasks
    /\ lingering = 0

InitCluster ==
    /\ tombstone = [s \in Stores |-> FALSE]
    /\ speedCalls = [s \in Stores |-> 0]
    /\ speedFailed = 0

InitRestore == InitClient /\ InitCluster /\ InitRestoreFiles

\* A client on which RestoreFiles is not called.
IdleRestore ==
    /\ ctxDone = FALSE
    /\ hasSpeedLimited = FALSE
    /\ rateLimit = 0
    /\ poolWidth = 1
    /\ InitCluster
    /\ InitRestoreFiles


\* ------------------------------------------------------ Close / parent ctx
\* rc.cancel() from Client.Close, or the parent context of rc.ctx is cancelled.
CancelCtx ==
    /\ ~ctxDone
    /\ ctxDone' = TRUE
    /\ UNCHANGED <<hasSpeedLimited, rateLimit, poolWidth>>
    /\ UNCHANGED <<clusterVars, mainVars, taskVars>>
    /\ UNCHANGED notRestoreVars

\* ------------------------------------------------------------ RestoreFiles
\* errCh := make(chan error, len(files))
ErrChCap(n) == n

\* The call begins: errCh and wg are made and close(errCh) is deferred.
\* Tasks of the call before that have all sent on their errCh; those still
\* before their updateCh send keep their worker.
StartCall(n) ==
    /\ mainPc = "idle"
    /\ callIdx < MaxCalls
    /\ callIdx' = callIdx + 1
    /\ files' = n
    /\ ctxAtStart' = ctxDone
    /\ mainPc' = "speed"
    /\ dispIdx' = 0
    /\ recvCnt' = 0
    /\ errCh' = <<>>
    /\ wg' = 0
    /\ ret' = "none"
    /\ taskPc' = [f \in Files |-> "none"]
    /\ importRes' = [f \in Files |-> "na"]
    /\ sent' = [f \in Files |-> 0]
    /\ updates' = [f \in Files |-> 0]
    /\ lingering' = lingering + Cardinality(TasksAt({"update"}))
    /\ UNCHANGED <<clientVars, clusterVars>>
    /\ UNCHANGED notRestoreVars

\* `return v` of RestoreFiles, with the deferred close(errCh).
Return(v) ==
    /\ ret' = v
    /\ mainPc' = "idle"

\* speedCalls after the RPC went to the first k stores of the list.
IssuedTo(stores, k) ==
    [s \in Stores |->
        IF \E j \in 1..k : stores[j] = s THEN speedCalls[s] + 1 ELSE speedCalls[s]]

\* A forgotten flag test: the limit is applied by every batch.
SpeedLimitNeededEveryBatch == rateLimit # 0

\* if !rc.hasSpeedLimited && rc.rateLimit != 0
SpeedLimitNeeded == ~hasSpeedLimited /\ rateLimit # 0

\* rc.setSpeedLimit() and the `if err != nil { return err }` after it.
\* k = 0: GetAllStores fails; 1 <= k <= len(stores): the RPC to stores[k]
\* fails; k = len(stores)+1: every RPC succeeds.
SetSpeedLimit ==
    /\ mainPc = "speed"
    /\ IF SpeedLimitNeeded
       THEN LET stores == GetAllStores IN
            \E k \in 0..(Len(stores) + 1) :
               IF k = Len(stores) + 1
               THEN /\ speedCalls' = IssuedTo(stores, Len(stores))
                    /\ hasSpeedLimited' = TRUE
                    /\ mainPc' = "dispatch"
                    /\ UNCHANGED <<ret, speedFailed>>
               ELSE /\ speedCalls' = IssuedTo(stores, k)
                    /\ speedFailed' = speedFailed + 1
                    /\ Return("err")
                    /\ UNCHANGED hasSpeedLimited
       ELSE /\ mainPc' = "dispatch"
            /\ UNCHANGED <<ret, speedCalls, speedFailed, hasSpeedLimited>>
    /\ UNCHANGED <<ctxDone, rateLimit, poolWidth, pdVars>>
    /\ UNCHANGED <<callIdx, files, dispIdx, recvCnt, errCh, wg, ctxAtStart>>
    /\ UNCHANGED taskVars
    /\ UNCHANGED notRestoreVars

\* The iteration with `go task()` in place of rc.workerPool.Apply(task).
ApplyWithoutPool ==
    /\ mainPc = "dispatch"
    /\ dispIdx < files
    /\ wg' = wg + 1
    /\ taskPc' = [taskPc EXCEPT ![dispIdx + 1] = "import"]
    /\ dispIdx' = dispIdx + 1
    /\ mainPc' = IF dispIdx + 1 = files THEN "collect" ELSE "dispatch"
    /\ UNCHANGED <<callIdx, files, recvCnt, errCh, ret, ctxAtStart>>
    /\ UNCHANGED <<importRes, sent, updates, lingering>>
    /\ UNCHANGED <<clientVars, clusterVars>>
    /\ UNCHANGED notRestoreVars

\* One iteration of `for _, file := range files`: wg.Add(1) and
\* rc.workerPool.Apply(task), which blocks while no worker is free.
Apply ==
    /\ mainPc = "dispatch"
    /\ dispIdx < files
    /\ Running < poolWidth
    /\ wg' = wg + 1
    /\ taskPc' = [taskPc EXCEPT ![dispIdx + 1] = "import"]
    /\ dispIdx' = dispIdx + 1
    /\ mainPc' = IF dispIdx + 1 = files THEN "collect" ELSE "dispatch"
    /\ UNCHANGED <<callIdx, files, recvCnt, errCh, ret, ctxAtStart>>
    /\ UNCHANGED <<importRes, sent, updates, lingering>>
    /\ UNCHANGED <<clientVars, clusterVars>>
    /\ UNCHANGED notRestoreVars

\* Entering the select evaluates the send operand: fileImporter.Import runs
\* whether or not rc.ctx is cancelled.
Import(f) ==
    /\ taskPc[f] = "import"
    /\ \E r \in {"nil", "err"} : importRes' = [importRes EXCEPT ![f] = r]
    /\ taskPc' = [taskPc EXCEPT ![f] = "select"]
    /\ UNCHANGED <<sent, updates, lingering>>
    /\ UNCHANGED <<clientVars, clusterVars, mainVars>>
    /\ UNCHANGED notRestoreVars

\* A cancelled task that reports nothing: case <-rc.ctx.Done(): return.
SelectCancelledSilent(f) ==
    /\ taskPc[f] = "select"
    /\ ctxDone
    /\ taskPc' = [taskPc EXCEPT ![f] = "done"]
    /\ wg' = wg - 1
    /\ UNCHANGED <<callIdx, files, mainPc, dispIdx, recvCnt, errCh, ret, ctxAtStart>>
    /\ UNCHANGED <<importRes, sent, updates, lingering>>
    /\ UNCHANGED <<clientVars, clusterVars>>
    /\ UNCHANGED notRestoreVars

\* case <-rc.ctx.Done(): errCh <- nil; then the deferred wg.Done().
SelectCancelled(f) ==
    /\ taskPc[f] = "select"
    /\ ctxDone
    /\ mainPc # "idle"
    /\ Len(errCh) < ErrChCap(files)
    /\ errCh' = Append(errCh, "nil")
    /\ sent' = [sent EXCEPT ![f] = @ + 1]
    /\ taskPc' = [taskPc EXCEPT ![f] = "done"]
    /\ wg' = wg - 1
    /\ UNCHANGED <<callIdx, files, mainPc, dispIdx, recvCnt, ret, ctxAtStart>>
    /\ UNCHANGED <<importRes, updates, lingering>>
    /\ UNCHANGED <<clientVars, clusterVars>>
    /\ UNCHANGED notRestoreVars

\* A send case with an empty body: no progress signal.
SelectSendNoUpdate(f) ==
    /\ taskPc[f] = "select"
    /\ mainPc # "idle"
    /\ Len(errCh) < ErrChCap(files)
    /\ errCh' = Append(errCh, importRes[f])
    /\ sent' = [sent EXCEPT ![f] = @ + 1]
    /\ taskPc' = [taskPc EXCEPT ![f] = "done"]
    /\ wg' = wg - 1
    /\ UNCHANGED <<callIdx, files, mainPc, dispIdx, recvCnt, ret, ctxAtStart>>
    /\ UNCHANGED <<importRes, updates, lingering>>
    /\ UNCHANGED <<clientVars, clusterVars>>
    /\ UNCHANGED notRestoreVars

\* case errCh <- rc.fileImporter.Import(...): the Import result is sent.
SelectSend(f) ==
    /\ taskPc[f] = "select"
    /\ mainPc # "idle"
    /\ Len(errCh) < ErrChCap(files)
    /\ errCh' = Append(errCh, importRes[f])
    /\ sent' = [sent EXCEPT ![f] = @ + 1]
    /\ taskPc' = [taskPc EXCEPT ![f] = "update"]
    /\ UNCHANGED <<callIdx, files, mainPc, dispIdx, recvCnt, wg, ret, ctxAtStart>>
    /\ UNCHANGED <<importRes, updates, lingering>>
    /\ UNCHANGED <<clientVars, clusterVars>>
    /\ UNCHANGED notRestoreVars

\* A task without `defer wg.Done()`.
UpdateNoDone(f) ==
    /\ taskPc[f] = "update"
    /\ updates' = [updates EXCEPT ![f] = @ + 1]
    /\ taskPc' = [taskPc EXCEPT ![f] = "done"]
    /\ UNCHANGED <<importRes, sent, lingering>>
    /\ UNCHANGED <<callIdx, files, mainPc, dispIdx, recvCnt, errCh, wg, ret, ctxAtStart>>
    /\ UNCHANGED <<clientVars, clusterVars>>
    /\ UNCHANGED notRestoreVars

\* updateCh <- struct{}{} in the body of the send case, then wg.Done().
Update(f) ==
    /\ taskPc[f] = "update"
    /\ updates' = [updates EXCEPT ![f] = @ + 1]
    /\ taskPc' = [taskPc EXCEPT ![f] = "done"]
    /\ wg' = wg - 1
    /\ UNCHANGED <<importRes, sent, lingering>>
    /\ UNCHANGED <<callIdx, files, mainPc, dispIdx, recvCnt, errCh, ret, ctxAtStart>>
    /\ UNCHANGED <<clientVars, clusterVars>>
    /\ UNCHANGED notRestoreVars

\* The same step of a task of an earlier call: its updateCh send and the
\* release of its worker.
LingerUpdate ==
    /\ lingering > 0
    /\ lingering' = lingering - 1
    /\ UNCHANGED <<taskPc, importRes, sent, updates>>
    /\ UNCHANGED <<clientVars, clusterVars, mainVars>>
    /\ UNCHANGED notRestoreVars

\* One iteration of `for range files`: err := <-errCh; a non-nil err calls
\* rc.cancel() and goes on to wg.Wait(); the last nil makes the call return nil.
Recv ==
    /\ mainPc = "collect"
    /\ errCh # <<>>
    /\ errCh' = Tail(errCh)
    /\ IF Head(errCh) # "nil"
       THEN /\ ctxDone' = TRUE
            /\ mainPc' = "wait"
            /\ UNCHANGED <<recvCnt, ret>>
       ELSE /\ recvCnt' = recvCnt + 1
            /\ UNCHANGED ctxDone
            /\ IF recvCnt + 1 = files
               THEN Return("nil")
               ELSE UNCHANGED <<mainPc, ret>>
    /\ UNCHANGED <<hasSpeedLimited, rateLimit, poolWidth>>
    /\ UNCHANGED <<callIdx, files, dispIdx, wg, ctxAtStart>>
    /\ UNCHANGED <<clusterVars, taskVars>>
    /\ UNCHANGED notRestoreVars

\* The failure path without wg.Wait(): `return err` right after rc.cancel().
WaitSkipped ==
    /\ mainPc = "wait"
    /\ Return("err")
    /\ UNCHANGED <<callIdx, files, dispIdx, recvCnt, errCh, wg, ctxAtStart>>
    /\ UNCHANGED <<clientVars, clusterVars, taskVars>>
    /\ UNCHANGED notRestoreVars

\* wg.Wait() on the failure path, then `return err`.
Wait ==
    /\ mainPc = "wait"
    /\ wg = 0
    /\ Return("err")
    /\ UNCHANGED <<callIdx, files, dispIdx, recvCnt, errCh, wg, ctxAtStart>>
    /\ UNCHANGED <<clientVars, clusterVars, taskVars>>
    /\ UNCHANGED notRestoreVars

TaskStep ==
    \/ \E f \in Files :
        \/ Import(f)
        \/ SelectCancelled(f)
        \/ SelectSend(f)
        \/ Update(f)
    \/ LingerUpdate

MainStep == SetSpeedLimit \/ Apply \/ Recv \/ Wait

NextRestore ==
    \/ \E n \in 1..MaxFiles : StartCall(n)
    \/ CancelCtx
    \/ MainStep
    \/ TaskStep

\* -------------------------------------------------------- ValidateChecksum
MaxTables == 2

Tables == 1..MaxTables

\* defaultChecksumConcurrency
defaultChecksumConcurrency == 64

\* tables[i]: the checksum, kv count and byte count stored in the backup.
StoredTable(i) == [Crc64Xor |-> 10 * i, TotalKvs |-> 5, TotalBytes |-> 100]

\* What the restored cluster can hold for table i: the stored values, or
\* values that differ from them in one field.
ClusterChecksums(i) ==
    LET t == StoredTable(i)
        same == [Checksum |-> t.Crc64Xor, TotalKvs |-> t.TotalKvs,
                 TotalBytes |-> t.TotalBytes]
    IN {same,
        [same EXCEPT !.Checksum = @ + 1],
        [same EXCEPT !.TotalKvs = @ + 1],
        [same EXCEPT !.TotalBytes = @ + 1]}

NoResp == [Checksum |-> 0, TotalKvs |-> 0, TotalBytes |-> 0]

\* errors.New("failed to validate checksum")
ErrChecksum == "failed to validate checksum"

\* The table names an error value of ValidateChecksum carries: the database
\* and table go to the log only, the error is a constant message (or the
\* traced error of GetTS, Build or Execute).
TablesNamedBy(err) == {}

IdleChecksum ==
    /\ ckN = 0
    /\ ckCluster = [i \in Tables |-> NoResp]
    /\ ckDispPc = "closed"
    /\ ckDispIdx = 0
    /\ ckWg = 0
    /\ ckMainPc = "returned"
    /\ ckRet = "none"
    /\ ckTaskPc = [i \in Tables |-> "none"]
    /\ ckOutcome = [i \in Tables |-> "none"]
    /\ ckResp = [i \in Tables |-> NoResp]
    /\ ckPending = [i \in Tables |-> "nil"]
    /\ ckTsCalls = [i \in Tables |-> 0]
    /\ ckExecs = [i \in Tables |-> 0]
    /\ ckUpdates = [i \in Tables |-> 0]

\* ValidateChecksum has been called with 1..MaxTables tables: errCh and the
\* pool are made and the dispatching goroutine is started.
InitChecksum ==
    /\ ckN \in 1..MaxTables
    /\ ckCluster \in [Tables -> UNION {ClusterChecksums(i) : i \in Tables} \cup {NoResp}]
    /\ \A i \in Tables :
          ckCluster[i] \in (IF i <= ckN THEN ClusterChecksums(i) ELSE {NoResp})
    /\ ckDispPc = "dispatch"
    /\ ckDispIdx = 0
    /\ ckWg = 0
    /\ ckMainPc = "range"
    /\ ckRet = "none"
    /\ ckTaskPc = [i \in Tables |-> "none"]
    /\ ckOutcome = [i \in Tables |-> "none"]
    /\ ckResp = [i \in Tables |-> NoResp]
    /\ ckPending = [i \in Tables |-> "nil"]
    /\ ckTsCalls = [i \in Tables |-> 0]
    /\ ckExecs = [i \in Tables |-> 0]
    /\ ckUpdates = [i \in Tables |-> 0]

\* The workers of the checksum pool held by a task that has not finished.
CkRunning ==
    Cardinality({i \in Tables : ckTaskPc[i] \in {"getTS", "exec", "sendErr", "update"}})

\* One iteration of the dispatching goroutine: wg.Add(1); workers.Apply(task).
CkApply ==
    /\ ckDispPc = "dispatch"
    /\ ckDispIdx < ckN
    /\ CkRunning < defaultChecksumConcurrency
    /\ ckWg' = ckWg + 1
    /\ ckTaskPc' = [ckTaskPc EXCEPT ![ckDispIdx + 1] = "getTS"]
    /\ ckDispIdx' = ckDispIdx + 1
    /\ ckDispPc' = IF ckDispIdx + 1 = ckN THEN "wait" ELSE "dispatch"
    /\ UNCHANGED <<ckN, ckCluster, ckMainPc, ckRet>>
    /\ UNCHANGED <<ckOutcome, ckResp, ckPending, ckTsCalls, ckExecs, ckUpdates>>
    /\ UNCHANGED notChecksumVars

\* wg.Wait(); close(errCh) at the end of the dispatching goroutine.
CkClose ==
    /\ ckDispPc = "wait"
    /\ ckWg = 0
    /\ ckDispPc' = "closed"
    /\ UNCHANGED <<ckN, ckCluster, ckDispIdx, ckWg, ckMainPc, ckRet>>
    /\ UNCHANGED ckTaskVars
    /\ UNCHANGED notChecksumVars

\* startTS, err := rc.GetTS(ctx): an error becomes the value to send.
CkGetTS(i) ==
    /\ ckTaskPc[i] = "getTS"
    /\ ckTsCalls' = [ckTsCalls EXCEPT ![i] = @ + 1]
    /\ \E ok \in BOOLEAN :
          IF ok
          THEN /\ ckTaskPc' = [ckTaskPc EXCEPT ![i] = "exec"]
               /\ UNCHANGED <<ckOutcome, ckPending>>
          ELSE /\ ckTaskPc' = [ckTaskPc EXCEPT ![i] = "sendErr"]
               /\ ckOutcome' = [ckOutcome EXCEPT ![i] = "tsErr"]
               /\ ckPending' = [ckPending EXCEPT ![i] = "get ts failed"]
    /\ UNCHANGED <<ckResp, ckExecs, ckUpdates>>
    /\ UNCHANGED ckMainVars
    /\ UNCHANGED notChecksumVars

\* A comparison that leaves out the byte count.
MismatchNoBytes(resp, table) ==
    \/ resp.Checksum # table.Crc64Xor
    \/ resp.TotalKvs # table.TotalKvs

\* checksumResp.Checksum != table.Crc64Xor || checksumResp.TotalKvs !=
\* table.TotalKvs || checksumResp.TotalBytes != table.TotalBytes
Mismatch(resp, table) ==
    \/ resp.Checksum # table.Crc64Xor
    \/ resp.TotalKvs # table.TotalKvs
    \/ resp.TotalBytes # table.TotalBytes

\* The executor is built and executed, and the response is compared with
\* tables[i]. o = "buildErr": Build fails (Execute is not called);
\* o = "execErr": Execute fails; o = "resp": Execute returns the cluster's
\* checksum.
CkExecute(i) ==
    /\ ckTaskPc[i] = "exec"
    /\ \E o \in {"buildErr", "execErr", "resp"} :
          /\ ckOutcome' = [ckOutcome EXCEPT ![i] = o]
          /\ ckExecs' = [ckExecs EXCEPT ![i] = IF o = "buildErr" THEN @ ELSE @ + 1]
          /\ IF o = "resp"
             THEN /\ ckResp' = [ckResp EXCEPT ![i] = ckCluster[i]]
                  /\ IF Mismatch(ckCluster[i], StoredTable(i))
                     THEN /\ ckTaskPc' = [ckTaskPc EXCEPT ![i] = "sendErr"]
                          /\ ckPending' = [ckPending EXCEPT ![i] = ErrChecksum]
                     ELSE /\ ckTaskPc' = [ckTaskPc EXCEPT ![i] = "update"]
                          /\ UNCHANGED ckPending
             ELSE /\ ckTaskPc' = [ckTaskPc EXCEPT ![i] = "sendErr"]
                  /\ ckPending' = [ckPending EXCEPT ![i] =
                                      IF o = "buildErr" THEN "build executor failed"
                                      ELSE "execute checksum failed"]
                  /\ UNCHANGED ckResp
    /\ UNCHANGED <<ckTsCalls, ckUpdates>>
    /\ UNCHANGED ckMainVars
    /\ UNCHANGED notChecksumVars

\* updateCh <- struct{}{} of a table that passed, then the deferred wg.Done().
CkUpdate(i) ==
    /\ ckTaskPc[i] = "update"
    /\ ckUpdates' = [ckUpdates EXCEPT ![i] = @ + 1]
    /\ ckTaskPc' = [ckTaskPc EXCEPT ![i] = "done"]
    /\ ckWg' = ckWg - 1
    /\ UNCHANGED <<ckN, ckCluster, ckDispPc, ckDispIdx, ckMainPc, ckRet>>
    /\ UNCHANGED <<ckOutcome, ckResp, ckPending, ckTsCalls, ckExecs>>
    /\ UNCHANGED notChecksumVars

\* errCh is unbuffered: the send `errCh <- err` of task i meets the receive of
\* `for err := range errCh`; err is non-nil, so ValidateChecksum returns it,
\* and the task returns (wg.Done()).
CkRecvErr(i) ==
    /\ ckMainPc = "range"
    /\ ckTaskPc[i] = "sendErr"
    /\ ckRet' = ckPending[i]
    /\ ckMainPc' = "returned"
    /\ ckTaskPc' = [ckTaskPc EXCEPT ![i] = "done"]
    /\ ckWg' = ckWg - 1
    /\ UNCHANGED <<ckN, ckCluster, ckDispPc, ckDispIdx>>
    /\ UNCHANGED <<ckOutcome, ckResp, ckPending, ckTsCalls, ckExecs, ckUpdates>>
    /\ UNCHANGED notChecksumVars

\* The range loop ends when errCh is closed: return nil.
CkRecvClosed ==
    /\ ckMainPc = "range"
    /\ ckDispPc = "closed"
    /\ ckRet' = "nil"
    /\ ckMainPc' = "returned"
    /\ UNCHANGED <<ckN, ckCluster, ckDispPc, ckDispIdx, ckWg>>
    /\ UNCHANGED ckTaskVars
    /\ UNCHANGED notChecksumVars

NextChecksum ==
    \/ CkApply
    \/ CkClose
    \/ \E i \in Tables : CkGetTS(i) \/ CkExecute(i) \/ CkUpdate(i) \/ CkRecvErr(i)
    \/ CkRecvClosed

\* ---------------------------------------------------------- switchTiKVMode
MaxSwitches == 2

IdleSwitch ==
    /\ storeMode = [s \in Stores |-> "Normal"]
    /\ swCalls = 0
    /\ swPc = "idle"
    /\ swMode = "Normal"
    /\ swStores = <<>>
    /\ swIdx = 0
    /\ swDialed = [s \in Stores |-> 0]
    /\ swRequests = [s \in Stores |-> 0]
    /\ swFailedAt = 0
    /\ swRet = "none"

\* SwitchToImportMode / SwitchToNormalMode call switchTiKVMode(ctx, mode).
SwStart(mode) ==
    /\ swPc = "idle"
    /\ swCalls < MaxSwitches
    /\ swCalls' = swCalls + 1
    /\ swMode' = mode
    /\ swPc' = "list"
    /\ swStores' = <<>>
    /\ swIdx' = 0
    /\ swDialed' = [s \in Stores |-> 0]
    /\ swRequests' = [s \in Stores |-> 0]
    /\ swFailedAt' = 0
    /\ swRet' = "none"
    /\ UNCHANGED <<storeMode, pdVars>>
    /\ UNCHANGED notSwitchVars

\* stores, err := rc.pdClient.GetAllStores(ctx, pd.WithExcludeTombstone())
SwGetStores ==
    /\ swPc = "list"
    /\ \E ok \in BOOLEAN :
          IF ~ok
          THEN /\ swRet' = "err"
               /\ swPc' = "idle"
               /\ UNCHANGED swStores
          ELSE /\ swStores' = GetAllStores
               /\ IF GetAllStores = <<>>
                  THEN swRet' = "nil" /\ swPc' = "idle"
                  ELSE swPc' = "loop" /\ UNCHANGED swRet
    /\ UNCHANGED <<storeMode, swCalls, swMode, swIdx, swDialed, swRequests, swFailedAt>>
    /\ UNCHANGED pdVars
    /\ UNCHANGED notSwitchVars

\* A loop that skips a store whose SwitchMode call failed.
AbortsOnDialOnly(o) == o = "dialErr"

\* The `return errors.Trace(err)` after DialContext and after SwitchMode; a
\* failed conn.Close() is logged and the loop goes on.
AbortsBroadcast(o) == o \in {"dialErr", "switchErr"}

\* One iteration of `for _, store := range stores`. o is what happens with
\* this store: the dial fails, the SwitchMode call fails (the store may or may
\* not have switched), closing the connection fails, or all three succeed.
SwContact ==
    /\ swPc = "loop"
    /\ LET s == swStores[swIdx + 1] IN
       \E o \in {"dialErr", "switchErr", "closeErr", "ok"} :
          /\ swDialed' = [swDialed EXCEPT ![s] = @ + 1]
          /\ swRequests' = [swRequests EXCEPT ![s] = IF o = "dialErr" THEN @ ELSE @ + 1]
          /\ CASE o = "dialErr" -> UNCHANGED storeMode
               [] o = "switchErr" ->
                    \E applied \in BOOLEAN :
                       storeMode' = [storeMode EXCEPT ![s] = IF applied THEN swMode ELSE @]
               [] OTHER -> storeMode' = [storeMode EXCEPT ![s] = swMode]
          /\ swFailedAt' = IF o \in {"dialErr", "switchErr"} /\ swFailedAt = 0
                           THEN swIdx + 1 ELSE swFailedAt
          /\ IF AbortsBroadcast(o)
             THEN /\ swRet' = "err"
                  /\ swPc' = "idle"
                  /\ UNCHANGED swIdx
             ELSE /\ swIdx' = swIdx + 1
                  /\ IF swIdx + 1 = Len(swStores)
                     THEN swRet' = "nil" /\ swPc' = "idle"
                     ELSE UNCHANGED <<swRet, swPc>>
    /\ UNCHANGED <<swCalls, swMode, swStores>>
    /\ UNCHANGED pdVars
    /\ UNCHANGED notSwitchVars

NextSwitch ==
    \/ \E mode \in {"Import", "Normal"} : SwStart(mode)
    \/ SwGetStores
    \/ SwContact

\* ----------------------------------------------------------------- ResetTS
MaxPDs == 3
MaxAttempts == 4

PDs == 1..MaxPDs

\* The non-empty lists of distinct PD endpoints.
AddrLists ==
    UNION {{a \in [1..n -> PDs] : \A i, j \in 1..n : i # j => a[i] # a[j]} : n \in 1..MaxPDs}

IdleResetTS ==
    /\ pdAddrs = <<1>>
    /\ rsPc = "done"
    /\ rsI = 0
    /\ rsAttempts = 0
    /\ rsLog = <<>>
    /\ rsRet = "none"

\* ResetTS(pdAddrs) has been called: i := 0 and utils.WithRetry begins.
InitResetTS ==
    /\ pdAddrs \in AddrLists
    /\ rsPc = "retry"
    /\ rsI = 0
    /\ rsAttempts = 0
    /\ rsLog = <<>>
    /\ rsRet = "none"

\* The value of i after one run of the retried closure: the closure reads i
\* and never assigns it.
NextI(i) == i

\* utils.WithRetry gives up when the backoffer has no attempt left.
BackoffExhausted(failed) == failed = MaxAttempts

\* One attempt of utils.WithRetry: the closure computes idx := i % len(pdAddrs)
\* and calls utils.ResetTS(pdAddrs[idx], restoreTS); a nil result ends the
\* retry, an error is retried until the backoffer has no attempt left.
RsAttempt ==
    /\ rsPc = "retry"
    /\ LET idx == rsI % Len(pdAddrs) IN
       /\ rsLog' = Append(rsLog, pdAddrs[idx + 1])
       /\ rsI' = NextI(rsI)
    /\ \E ok \in BOOLEAN :
          IF ok
          THEN /\ rsRet' = "nil"
               /\ rsPc' = "done"
               /\ UNCHANGED rsAttempts
          ELSE /\ rsAttempts' = rsAttempts + 1
               /\ IF BackoffExhausted(rsAttempts + 1)
                  THEN rsRet' = "err" /\ rsPc' = "done"
                  ELSE UNCHANGED <<rsRet, rsPc>>
    /\ UNCHANGED pdAddrs
    /\ UNCHANGED notResetVars

NextResetTS == RsAttempt

\* ------------------------------------------------- FilterDDLJobs (db.go)
MaxJobs == 4
MaxShuffled == 3

\* A model.Job with the fields FilterDDLJobs and ExecDDLs read.  A nil
\* BinlogInfo.DBInfo or BinlogInfo.TableInfo is the empty sequence.
DBJob(ver, id, name) ==
    [SchemaVersion |-> ver, SchemaID |-> id, TableID |-> 0,
     DBInfo |-> <<[Name |-> name]>>, TableInfo |-> <<>>]

TableJob(ver, tid, iid, name) ==
    [SchemaVersion |-> ver, SchemaID |-> 1, TableID |-> tid,
     DBInfo |-> <<>>, TableInfo |-> <<[ID |-> iid, Name |-> name]>>]

\* The jobs the backup may have recorded at schema version ver: database
\* jobs (create, rename, drop) and table jobs (create, rename, drop, and
\* truncate, which changes the id of the table).  The table of id 3 is a
\* table of database 1 that no table to restore ever was.
JobsAt(ver) ==
    {DBJob(ver, 1, "b"), DBJob(ver, 2, "b"), DBJob(ver, 2, "a"),
     TableJob(ver, 1, 1, "b"), TableJob(ver, 2, 2, "a"), TableJob(ver, 1, 2, "a"),
     TableJob(ver, 3, 3, "a")}

\* A utils.Table: the database it is in and its model.TableInfo.
Table(dbID, dbName, id, name) ==
    [Db |-> [ID |-> dbID, Name |-> dbName], Info |-> [ID |-> id, Name |-> name]]

\* The tables arguments: one table, two tables of one database, two tables
\* of two databases.
TargetLists ==
    {<<Table(2, "a", 2, "a")>>,
     <<Table(2, "a", 2, "a"), Table(2, "a", 1, "b")>>,
     <<Table(2, "a", 2, "a"), Table(1, "b", 1, "b")>>}

IdleDDL ==
    /\ allDDLJobs = <<>>
    /\ ddlTables = <<>>
    /\ ddlInput = <<>>
    /\ ddlPc = "returned"
    /\ ddlJobs = <<>>
    /\ execLog = <<>>
    /\ execRet = "none"

InitDDL ==
    /\ allDDLJobs = <<>>
    /\ ddlTables \in TargetLists
    /\ ddlInput = <<>>
    /\ ddlPc = "backup"
    /\ ddlJobs = <<>>
    /\ execLog = <<>>
    /\ execRet = "none"

\* The histories of up to MaxShuffled jobs with pairwise distinct schema
\* versions, in any order: the order of the slice is not guaranteed sorted.
ShuffledHistories ==
    UNION {{h \in [1..n -> UNION {JobsAt(ver) : ver \in 1..n}] :
                \A i, j \in 1..n :
                    i # j => h[i].SchemaVersion # h[j].SchemaVersion} :
           n \in 0..MaxShuffled}

InitShuffled ==
    /\ allDDLJobs \in ShuffledHistories
    /\ ddlTables \in TargetLists
    /\ ddlInput = <<>>
    /\ ddlPc = "backup"
    /\ ddlJobs = <<>>
    /\ execLog = <<>>
    /\ execRet = "none"

\* The backup records one more job: every job gets the next schema version.
BackupJob ==
    /\ ddlPc = "backup"
    /\ Len(allDDLJobs) < MaxJobs
    /\ \E job \in JobsAt(Len(allDDLJobs) + 1) :
           allDDLJobs' = Append(allDDLJobs, job)
    /\ UNCHANGED <<ddlTables, ddlInput, ddlPc, ddlJobs, execLog, execRet>>
    /\ UNCHANGED notDDLVars

RemoveAt(s, i) == SubSeq(s, 1, i - 1) \o SubSeq(s, i + 1, Len(s))

RECURSIVE SortSlice(_, _)
\* sort.Slice(s, less) where less compares BinlogInfo.SchemaVersion with
\* `<` (order = "asc") or `>` (order = "desc").
SortSlice(s, order) ==
    IF s = <<>> THEN <<>>
    ELSE LET first(i) ==
                 \A j \in DOMAIN s :
                     IF order = "asc"
                     THEN s[i].SchemaVersion <= s[j].SchemaVersion
                     ELSE s[i].SchemaVersion >= s[j].SchemaVersion
             i == CHOOSE i \in DOMAIN s :
                      first(i) /\ \A j \in DOMAIN s : first(j) => i <= j
         IN <<s[i]>> \o SortSlice(RemoveAt(s, i), order)

SortHistoryAscending(jobs) == SortSlice(jobs, "asc")

SortHistorySkipped(jobs) == jobs

\* db.go:143-145: the history, newest job first.
SortHistory(jobs) == SortSlice(jobs, "desc")

RECURSIVE DatabasesFrom(_, _)
DatabasesFrom(tables, seen) ==
    IF tables = <<>> THEN <<>>
    ELSE LET db == Head(tables).Db
         IN IF db.ID \in seen
            THEN DatabasesFrom(Tail(tables), seen)
            ELSE <<db>> \o DatabasesFrom(Tail(tables), seen \cup {db.ID})

\* getDatabases: the databases of the tables, each once, in table order.
getDatabases(tables) == DatabasesFrom(tables, {})

IsDBJob(job) == job.DBInfo # <<>>
IsTableJob(job) == job.TableInfo # <<>>

\* db.go:159: the test on a database job.
DBJobMatches(job, dbIDs, dbNames) ==
    job.SchemaID \in dbIDs \/ job.DBInfo[1].Name \in dbNames

\* db.go:177: the test on a table job.
TableJobMatches(job, tableIDs, tableNames) ==
    job.TableID \in tableIDs \/ job.TableInfo[1].Name \in tableNames

TableIDsAfterOnlyInfo(tableIDs, job) == tableIDs \cup {job.TableInfo[1].ID}

\* db.go:179-181: the ids a selected table job adds.
TableIDsAfter(tableIDs, job) ==
    tableIDs \cup {job.TableID, job.TableInfo[1].ID}

RECURSIVE ScanDBLearnsAll(_, _, _)
ScanDBLearnsAll(jobs, dbIDs, dbNames) ==
    IF jobs = <<>> THEN <<>>
    ELSE LET job == Head(jobs)
         IN IF ~IsDBJob(job)
            THEN ScanDBLearnsAll(Tail(jobs), dbIDs, dbNames)
            ELSE (IF DBJobMatches(job, dbIDs, dbNames) THEN <<job>> ELSE <<>>)
                     \o ScanDBLearnsAll(Tail(jobs), dbIDs \cup {job.SchemaID},
                                        dbNames \cup {job.DBInfo[1].Name})

RECURSIVE ScanDB(_, _, _)
\* db.go:157-167: the jobs selected for one database, in the order visited.
ScanDB(jobs, dbIDs, dbNames) ==
    IF jobs = <<>> THEN <<>>
    ELSE LET job == Head(jobs)
         IN IF IsDBJob(job) /\ DBJobMatches(job, dbIDs, dbNames)
            THEN <<job>> \o ScanDB(Tail(jobs), dbIDs \cup {job.SchemaID},
                                   dbNames \cup {job.DBInfo[1].Name})
            ELSE ScanDB(Tail(jobs), dbIDs, dbNames)

RECURSIVE ScanTable(_, _, _)
\* db.go:175-185: the jobs selected for one table, in the order visited.
ScanTable(jobs, tableIDs, tableNames) ==
    IF jobs = <<>> THEN <<>>
    ELSE LET job == Head(jobs)
         IN IF IsTableJob(job) /\ TableJobMatches(job, tableIDs, tableNames)
            THEN <<job>> \o ScanTable(Tail(jobs), TableIDsAfter(tableIDs, job),
                                      tableNames \cup {job.TableInfo[1].Name})
            ELSE ScanTable(Tail(jobs), tableIDs, tableNames)

RECURSIVE Flatten(_)
\* append(ddlJobs, job) over the scans, one after the other.
Flatten(ss) == IF ss = <<>> THEN <<>> ELSE Head(ss) \o Flatten(Tail(ss))

\* What the loop over dbs appends for dbs[i].
SelectedForDB(sorted, db) == ScanDB(sorted, {db.ID}, {db.Name})

\* What the loop over tables appends for tables[i].
SelectedForTable(sorted, table) ==
    ScanTable(sorted, {table.Info.ID}, {table.Info.Name})

FilterDDLJobs(jobs, tables) ==
    LET sorted == SortHistory(jobs)
        dbs == getDatabases(tables)
    IN Flatten([i \in 1..Len(dbs) |-> SelectedForDB(sorted, dbs[i])])
           \o Flatten([i \in 1..Len(tables) |->
                           SelectedForTable(sorted, tables[i])])

\* FilterDDLJobs(allDDLJobs, tables): sorts the caller's slice in place and
\* returns the selected jobs.
Filter ==
    /\ ddlPc = "backup"
    /\ ddlInput' = allDDLJobs
    /\ allDDLJobs' = SortHistory(allDDLJobs)
    /\ ddlJobs' = FilterDDLJobs(allDDLJobs, ddlTables)
    /\ ddlPc' = "filtered"
    /\ UNCHANGED <<ddlTables, execLog, execRet>>
    /\ UNCHANGED notDDLVars

\* ---------------------------------------------------------------- ExecDDLs
KeepOrder(jobs) == jobs

\* client.go:221-224: the jobs, oldest first.
SortForReplay(jobs) == SortSlice(jobs, "asc")

\* ExecDDLs(ddlJobs) up to its loop: sort.Slice by ascending schema version;
\* an empty slice returns nil at once.
ExecSort ==
    /\ ddlPc = "filtered"
    /\ ddlJobs' = SortForReplay(ddlJobs)
    /\ ddlPc' = IF ddlJobs = <<>> THEN "returned" ELSE "exec"
    /\ execRet' = IF ddlJobs = <<>> THEN "nil" ELSE "none"
    /\ UNCHANGED <<allDDLJobs, ddlTables, ddlInput, execLog>>
    /\ UNCHANGED notDDLVars

\* What is left of `for _, job := range ddlJobs`.
ExecRest(done) == SubSeq(ddlJobs, done + 1, Len(ddlJobs))

\* One iteration of the loop: rc.db.ExecDDL(rc.ctx, job) succeeds or fails;
\* a failure returns the error, the last success returns nil.
ExecDDL ==
    /\ ddlPc = "exec"
    /\ \E ok \in BOOLEAN :
           LET job == Head(ExecRest(Len(execLog)))
               last == Len(ExecRest(Len(execLog))) = 1
           IN /\ execLog' = Append(execLog, job)
              /\ ddlPc' = IF ok /\ ~last THEN "exec" ELSE "returned"
              /\ execRet' = IF ~ok THEN "err" ELSE IF last THEN "nil" ELSE "none"
    /\ UNCHANGED <<allDDLJobs, ddlTables, ddlInput, ddlJobs>>
    /\ UNCHANGED notDDLVars

NextDDL == BackupJob \/ Filter \/ ExecSort \/ ExecDDL

\* ------------------------------------------------------------ CreateTables
MaxCreate == 3

\* The cluster allocates the id of a table it creates: ids above those the
\* backup used, in creation order.
NewID(created) == MaxCreate + 1 + Len(created)

\* tables[i] of the backup: its name, its id and the number of its indices.
BackupTable(i, nIdx) == [Name |-> i, ID |-> i, Indices |-> nIdx]

\* The tables arguments: up to MaxCreate tables, each with or without an
\* index.
CreateLists ==
    UNION {[1..n -> {0, 1}] : n \in 0..MaxCreate}

\* The three results of CreateTables; a nil pointer or a nil slice is the
\* empty sequence, a non-nil one is wrapped in a sequence of length one.
NotReturned == [rules |-> <<>>, tables |-> <<>>, err |-> "none"]

IdleCreateTables ==
    /\ ctTables = <<>>
    /\ ctNewTS = 0
    /\ ctPc = "returned"
    /\ ctIdx = 0
    /\ ctCreated = <<>>
    /\ ctSchemas = <<>>
    /\ ctRules = [Table |-> <<>>, Data |-> <<>>]
    /\ ctNewTables = <<>>
    /\ ctRet = NotReturned

\* client.go:197-201: empty rule sets and an empty newTables.
InitCreateTables ==
    /\ \E idx \in CreateLists :
           ctTables = [i \in DOMAIN idx |-> BackupTable(i, idx[i])]
    /\ ctNewTS \in {1, 2}
    /\ ctPc = "loop"
    /\ ctIdx = 0
    /\ ctCreated = <<>>
    /\ ctSchemas = <<>>
    /\ ctRules = [Table |-> <<>>, Data |-> <<>>]
    /\ ctNewTables = <<>>
    /\ ctRet = NotReturned

\* GetRewriteRules(newTable, oldTable, newTS): a rule for the table and one
\* for each of its indices, and a data rule for its rows.
GetRewriteRules(newTable, oldTable, newTS) ==
    LET rule(kind) == [Kind |-> kind, Old |-> oldTable.ID, New |-> newTable.ID,
                       TS |-> newTS]
    IN [Table |-> <<rule("table")>>
                      \o [k \in 1..oldTable.Indices |-> rule("index")],
        Data |-> <<rule("row")>>]

AppendRulesInFront(acc, rules) == rules \o acc

\* client.go:212-213: append(rewriteRules.X, rules.X...).
AppendRules(acc, rules) == acc \o rules

AbortsOnCreateErrOnly(outcome) == outcome = "createErr"

\* client.go:204-210: the outcomes of an iteration that return the error.
CtAborts(outcome) == outcome \in {"createErr", "schemaErr"}

\* One iteration of `for _, table := range tables`: rc.db.CreateTable, then
\* rc.GetTableSchema, then GetRewriteRules and the three appends.
CtIteration ==
    /\ ctPc = "loop"
    /\ ctIdx < Len(ctTables)
    /\ \E outcome \in {"ok", "createErr", "schemaErr"} :
           LET table == ctTables[ctIdx + 1]
               created == outcome # "createErr"
               readBack == outcome = "ok"
               newTableInfo == [Name |-> table.Name, ID |-> NewID(ctCreated),
                                Indices |-> table.Indices]
               rules == GetRewriteRules(newTableInfo, table, ctNewTS)
           IN /\ ctIdx' = ctIdx + 1
              /\ ctCreated' = IF created THEN Append(ctCreated, table.Name)
                              ELSE ctCreated
              /\ ctSchemas' = IF readBack THEN Append(ctSchemas, newTableInfo)
                              ELSE ctSchemas
              /\ IF CtAborts(outcome)
                 THEN /\ ctPc' = "returned"
                      /\ ctRet' = [rules |-> <<>>, tables |-> <<>>, err |-> "err"]
                      /\ UNCHANGED <<ctRules, ctNewTables>>
                 ELSE /\ ctRules' =
                             [Table |-> AppendRules(ctRules.Table, rules.Table),
                              Data |-> AppendRules(ctRules.Data, rules.Data)]
                      /\ ctNewTables' = Append(ctNewTables, newTableInfo)
                      /\ UNCHANGED <<ctPc, ctRet>>
    /\ UNCHANGED <<ctTables, ctNewTS>>
    /\ UNCHANGED notCreateVars

\* client.go:216: the loop is over.
CtReturn ==
    /\ ctPc = "loop"
    /\ ctIdx = Len(ctTables)
    /\ ctPc' = "returned"
    /\ ctRet' = [rules |-> <<ctRules>>, tables |-> <<ctNewTables>>, err |-> "nil"]
    /\ UNCHANGED <<ctTables, ctNewTS, ctIdx, ctCreated, ctSchemas, ctRules,
                   ctNewTables>>
    /\ UNCHANGED notCreateVars

NextCreateTables == CtIteration \/ CtReturn

\* --------------------------------------------------------- specifications
InitSpecRestore ==
    /\ InitRestore /\ IdleChecksum /\ IdleSwitch /\ IdleResetTS
    /\ IdleDDL /\ IdleCreateTables

SpecRestore == InitSpecRestore /\ [][NextRestore]_vars

\* The scheduler runs every goroutine that can take a step, each Import
\* returns and updateCh is drained.
FairRestore == SpecRestore /\ WF_vars(MainStep \/ TaskStep)

\* The client is not closed and its parent context is not cancelled: only
\* RestoreFiles itself calls rc.cancel().
NextRestoreOpen ==
    \/ \E n \in 1..MaxFiles : StartCall(n)
    \/ MainStep
    \/ TaskStep

SpecRestoreOpen == InitSpecRestore /\ [][NextRestoreOpen]_vars

InitSpecChecksum ==
    /\ IdleRestore /\ InitChecksum /\ IdleSwitch /\ IdleResetTS
    /\ IdleDDL /\ IdleCreateTables

SpecChecksum == InitSpecChecksum /\ [][NextChecksum]_vars

\* The scheduler runs every goroutine that can take a step: GetTS and
\* Execute return, updateCh is drained, and a send on errCh that meets the
\* receive of the range loop completes.
FairChecksum == SpecChecksum /\ WF_vars(NextChecksum)

\* Any of the stores PD knows may be a tombstone.
InitSpecSwitch ==
    /\ ctxDone = FALSE /\ hasSpeedLimited = FALSE /\ rateLimit = 0 /\ poolWidth = 1
    /\ tombstone \in [Stores -> BOOLEAN]
    /\ speedCalls = [s \in Stores |-> 0]
    /\ speedFailed = 0
    /\ InitRestoreFiles
    /\ IdleChecksum
    /\ IdleSwitch
    /\ IdleResetTS
    /\ IdleDDL
    /\ IdleCreateTables

SpecSwitch == InitSpecSwitch /\ [][NextSwitch]_vars

InitSpecResetTS ==
    /\ IdleRestore /\ IdleChecksum /\ IdleSwitch /\ InitResetTS
    /\ IdleDDL /\ IdleCreateTables

SpecResetTS == InitSpecResetTS /\ [][NextResetTS]_vars

InitSpecDDL ==
    /\ IdleRestore /\ IdleChecksum /\ IdleSwitch /\ IdleResetTS
    /\ InitDDL /\ IdleCreateTables

SpecDDL == InitSpecDDL /\ [][NextDDL]_vars

\* FilterDDLJobs alone, called with a history in any order.
InitSpecFilter ==
    /\ IdleRestore /\ IdleChecksum /\ IdleSwitch /\ IdleResetTS
    /\ InitShuffled /\ IdleCreateTables

SpecFilter == InitSpecFilter /\ [][Filter]_vars

InitSpecCreateTables ==
    /\ IdleRestore /\ IdleChecksum /\ IdleSwitch /\ IdleResetTS
    /\ IdleDDL /\ InitCreateTables

SpecCreateTables == InitSpecCreateTables /\ [][NextCreateTables]_vars

\* ============================================================ properties
\* ---------------------------------------------------------- RestoreFiles
Batch == 1..files
Returned == callIdx >= 1 /\ mainPc = "idle"
AllSettled == \A f \in Batch : taskPc[f] = "done"
AllImportsOK == \A f \in Batch : importRes[f] = "nil"
SomeImportFailed == \E f \in Batch : importRes[f] = "err"

\* C1: RestoreFiles returns nil only if no Import of the batch returned an
\* error, also when rc.ctx was cancelled before or during the call.
C1_NilOnlyIfEveryImportSucceeded ==
    (Returned /\ ret = "nil") => ~SomeImportFailed

C3_AlwaysReturns == (mainPc # "idle") ~> (mainPc = "idle")

\* The failure path was taken with a sibling task in flight, which then
\* reported the cancellation, and the call returned the error.
C3_Witness ==
    /\ Returned /\ ret = "err" /\ files >= 2
    /\ \E f \in Batch : taskPc[f] = "done" /\ updates[f] = 0 /\ sent[f] = 1
    /\ \E f \in Batch : importRes[f] = "err" /\ updates[f] = 1

\* C4: a task sends at most one value on errCh, and a task that has finished
\* has sent exactly one.
C4_ExactlyOneCompletionSignal ==
    \A f \in Files :
        /\ sent[f] <= 1
        /\ taskPc[f] = "done" => sent[f] = 1
        /\ taskPc[f] = "update" => sent[f] = 1

\* One task finished through the cancellation case, another through the send.
C4_Witness ==
    /\ \E f \in Batch : taskPc[f] = "done" /\ updates[f] = 0
    /\ \E f \in Batch : taskPc[f] = "done" /\ updates[f] = 1

\* ---------------------------------------------------------- setSpeedLimit
\* C9 as stated: with a non-zero rate limit no store is sent the
\* set-download-speed-limit RPC more than once, whatever failed before.
C9_AtMostOncePerStore ==
    rateLimit # 0 => \A s \in Stores : speedCalls[s] <= 1

C9_NoFailedPass ==
    (rateLimit # 0 /\ speedFailed = 0) =>
        /\ \A s \in Stores : speedCalls[s] = IF hasSpeedLimited THEN 1 ELSE 0
        /\ (callIdx >= 1 /\ mainPc # "speed") => hasSpeedLimited

\* C9 amended: while no setSpeedLimit pass has failed, every store has been
\* sent the RPC exactly once from the first batch on; and once a pass has
\* completed (hasSpeedLimited) no later batch sends it to any store.
C9_OncePerCompletedPass ==
    /\ []C9_NoFailedPass
    /\ [][hasSpeedLimited => speedCalls' = speedCalls]_vars

\* A second batch passed setSpeedLimit without sending the RPC again.
C9_Witness ==
    /\ callIdx >= 2 /\ mainPc = "dispatch"
    /\ hasSpeedLimited /\ speedFailed = 0
    /\ \A s \in Stores : speedCalls[s] = 1

\* ------------------------------------------------------ ValidateChecksum
Validated == 1..ckN
CkReturned == ckN >= 1 /\ ckMainPc = "returned"

\* The cluster's checksum of table i equals the stored one in all three fields.
SameAsStored(resp, i) ==
    /\ resp.Checksum = StoredTable(i).Crc64Xor
    /\ resp.TotalKvs = StoredTable(i).TotalKvs
    /\ resp.TotalBytes = StoredTable(i).TotalBytes

\* The tables whose checksum in the cluster differs from the stored one.
Mismatching == {i \in Validated : ~SameAsStored(ckCluster[i], i)}

\* Table i was checked and passed: timestamp, build and execution succeeded
\* and the response equals the stored values.
TablePassed(i) == ckOutcome[i] = "resp" /\ SameAsStored(ckResp[i], i)

\* Table i was checked and failed.
TableFailed(i) ==
    \/ ckOutcome[i] \in {"tsErr", "buildErr", "execErr"}
    \/ ckOutcome[i] = "resp" /\ ~SameAsStored(ckResp[i], i)

\* C5: when ValidateChecksum has returned, the checksum task of every table
\* of the input has run to completion.
C5_ReturnsAfterEveryTask ==
    CkReturned => \A i \in Validated : ckTaskPc[i] = "done"

\* C6: the error ValidateChecksum returns names exactly the tables whose
\* computed checksum mismatches the stored one.
C6_ErrorNamesEveryMismatch ==
    (CkReturned /\ ckRet # "nil") => TablesNamedBy(ckRet) = Mismatching

\* C7: ValidateChecksum returns nil only if every table passed, returns an
\* error only if some table failed, does return once no goroutine can take a
\* step, and asks for the timestamp and the checksum of a table at most once.
C7_NilIffEveryTablePassed ==
    /\ (CkReturned /\ ckRet = "nil") => \A i \in Validated : TablePassed(i)
    /\ (CkReturned /\ ckRet # "nil") => \E i \in Validated : TableFailed(i)
    /\ (ckN >= 1 /\ ~ENABLED NextChecksum) => ckMainPc = "returned"
    /\ \A i \in Tables : ckTsCalls[i] <= 1 /\ ckExecs[i] <= 1

\* An error was returned when the only difference, over all the tables, is
\* the byte count of one table.
C7_Witness ==
    /\ CkReturned /\ ckRet = ErrChecksum /\ ckN = MaxTables
    /\ \E i \in Validated :
          /\ ckOutcome[i] = "resp"
          /\ ckResp[i].Checksum = StoredTable(i).Crc64Xor
          /\ ckResp[i].TotalKvs = StoredTable(i).TotalKvs
          /\ ckResp[i].TotalBytes # StoredTable(i).TotalBytes
          /\ \A j \in Validated \ {i} : TablePassed(j)

\* -------------------------------------------------------- switchTiKVMode
SwReturned == swCalls >= 1 /\ swPc = "idle"

\* C8: when the dial or the SwitchMode call to the k-th listed store fails,
\* switchTiKVMode returns an error, the stores before it have got one request
\* and are in the new mode, and the stores after it are not contacted; when no
\* store fails, every listed store gets exactly one request; a tombstone store
\* is never contacted.
C8_AbortAtFirstFailure ==
    /\ \A s \in Stores : tombstone[s] => swDialed[s] = 0
    /\ \A s \in Stores : swDialed[s] <= 1 /\ swRequests[s] <= swDialed[s]
    /\ (SwReturned /\ swFailedAt # 0) =>
          /\ swRet = "err"
          /\ \A j \in 1..(swFailedAt - 1) :
                swRequests[swStores[j]] = 1 /\ storeMode[swStores[j]] = swMode
          /\ \A j \in (swFailedAt + 1)..Len(swStores) : swDialed[swStores[j]] = 0
    /\ (SwReturned /\ swRet = "nil") =>
          \A s \in Stores : ~tombstone[s] => swRequests[s] = 1 /\ storeMode[s] = swMode

\* The broadcast to Import mode failed at the second listed store: the first
\* one has got its request and is in Import mode.
C8_Witness ==
    /\ SwReturned /\ swRet = "err" /\ swMode = "Import"
    /\ swFailedAt = 2
    /\ Len(swStores) >= 2
    /\ storeMode[swStores[1]] = "Import"
    /\ swRequests[swStores[1]] = 1

\* ---------------------------------------------------------------- ResetTS
\* C10: attempt number n (counting from 0) of ResetTS is sent to
\* pdAddrs[n mod len(pdAddrs)].
C10_RoundRobin ==
    \A n \in 1..Len(rsLog) : rsLog[n] = pdAddrs[((n - 1) % Len(pdAddrs)) + 1]

\* -------------------------------------------------- FilterDDLJobs, ExecDDLs
InSeq(x, s) == \E i \in DOMAIN s : s[i] = x
Range(s) == {s[i] : i \in DOMAIN s}
Occurrences(x, s) == Cardinality({i \in DOMAIN s : s[i] = x})

\* What FilterDDLJobs returned, in the order it appended (ExecDDLs sorts
\* ddlJobs in place; FilterDDLJobs left allDDLJobs sorted).
FilterOutput == FilterDDLJobs(allDDLJobs, ddlTables)

\* C11: ExecDDLs hands the jobs to ExecDDL in ascending schema-version order
\* whatever the order of its input: no job is executed after a job with a
\* larger schema version, the jobs executed are a prefix of the sorted slice,
\* and a nil return means that every job of the input was executed.
C11_ReplayAscending ==
    /\ \A i, j \in DOMAIN execLog :
           i < j => execLog[i].SchemaVersion <= execLog[j].SchemaVersion
    /\ execLog # <<>> => execLog = SubSeq(ddlJobs, 1, Len(execLog))
    /\ execRet = "nil" =>
           \A job \in Range(FilterOutput) :
               Occurrences(job, execLog) = Occurrences(job, FilterOutput)

\* A replay that returned nil for an input that was not in ascending order.
C11_Witness ==
    /\ execRet = "nil"
    /\ Len(execLog) >= 3
    /\ \E i, j \in DOMAIN FilterOutput :
           i < j /\ FilterOutput[i].SchemaVersion > FilterOutput[j].SchemaVersion

\* C12: a job that FilterDDLJobs selected for more than one object is handed
\* to ExecDDL once only.
C12_ExecutedOnce ==
    \A i, j \in DOMAIN execLog : execLog[i] = execLog[j] => i = j

\* The ids and names an object has collected when the scan visits
\* allDDLJobs[k], given the jobs sel selected for it.
SelectedBefore(sel, k) == {i \in 1..(k - 1) : InSeq(allDDLJobs[i], sel)}
DBIDsAt(db, sel, k) ==
    {db.ID} \cup {allDDLJobs[i].SchemaID : i \in SelectedBefore(sel, k)}
DBNamesAt(db, sel, k) ==
    {db.Name} \cup {allDDLJobs[i].DBInfo[1].Name : i \in SelectedBefore(sel, k)}
TableIDsAt(table, sel, k) ==
    {table.Info.ID}
        \cup {allDDLJobs[i].TableID : i \in SelectedBefore(sel, k)}
        \cup {allDDLJobs[i].TableInfo[1].ID : i \in SelectedBefore(sel, k)}
TableNamesAt(table, sel, k) ==
    {table.Info.Name}
        \cup {allDDLJobs[i].TableInfo[1].Name : i \in SelectedBefore(sel, k)}

TargetDBs == Range(getDatabases(ddlTables))
TargetTables == Range(ddlTables)

\* The history of the comment at db.go:148-152 (database "a" of id 2):
\* rename a -> b (id 1), drop b (id 1), create b (id 2), rename b -> a (id 2),
\* as FilterDDLJobs leaves it sorted.
RenameDropCreateRename ==
    <<DBJob(4, 2, "a"), DBJob(3, 2, "b"), DBJob(2, 1, "b"), DBJob(1, 1, "b")>>

\* C13: for each target database and table, a job is selected exactly when
\* its source id or its resulting name is, at the moment the scan visits it,
\* among the target's id and name and those of the jobs selected before it;
\* the output holds a job once for every target it is selected for; and the
\* rename / drop / create / rename history is selected whole for database
\* "a" of id 2.
C13_SelectedIffAliasKnown ==
    ddlPc = "filtered" =>
        /\ \A db \in TargetDBs :
               LET sel == SelectedForDB(allDDLJobs, db)
               IN \A k \in DOMAIN allDDLJobs :
                      LET job == allDDLJobs[k]
                      IN InSeq(job, sel) <=>
                             /\ IsDBJob(job)
                             /\ \/ job.SchemaID \in DBIDsAt(db, sel, k)
                                \/ job.DBInfo[1].Name \in DBNamesAt(db, sel, k)
        /\ \A table \in TargetTables :
               LET sel == SelectedForTable(allDDLJobs, table)
               IN \A k \in DOMAIN allDDLJobs :
                      LET job == allDDLJobs[k]
                      IN InSeq(job, sel) <=>
                             /\ IsTableJob(job)
                             /\ \/ job.TableID \in TableIDsAt(table, sel, k)
                                \/ job.TableInfo[1].Name \in TableNamesAt(table, sel, k)
        /\ \A job \in Range(allDDLJobs) :
               Occurrences(job, ddlJobs) =
                   Cardinality({db \in TargetDBs :
                                    InSeq(job, SelectedForDB(allDDLJobs, db))})
                       + Cardinality({i \in DOMAIN ddlTables :
                                          InSeq(job, SelectedForTable(allDDLJobs, ddlTables[i]))})
        /\ allDDLJobs = RenameDropCreateRename =>
               Range(allDDLJobs) \subseteq Range(ddlJobs)

\* The rename / drop / create / rename history has been filtered.
C13_Witness ==
    /\ ddlPc = "filtered"
    /\ allDDLJobs = RenameDropCreateRename
    /\ Len(ddlJobs) = 4

\* The jobs of the history that FilterDDLJobs did not select.
Unselected == Range(allDDLJobs) \ Range(ddlJobs)

\* The history without the jobs of A, in the same order.
Without(A) == SelectSeq(allDDLJobs, LAMBDA job : job \notin A)

\* C14: the history allDDLJobs is any smaller history plus jobs that are
\* selected for no target; filtering the smaller history selects the same
\* jobs, for the same targets, as filtering allDDLJobs.
C14_MonotoneUnderGrowth ==
    ddlPc = "filtered" =>
        \A A \in SUBSET Unselected :
            FilterDDLJobs(Without(A), ddlTables) = ddlJobs

\* A history in which a job selected for no target is newer than a selected
\* one and older than another.
C14_Witness ==
    /\ ddlPc = "filtered"
    /\ \E i, j, k \in DOMAIN allDDLJobs :
           /\ i < j /\ j < k
           /\ allDDLJobs[i] \in Range(ddlJobs)
           /\ allDDLJobs[j] \in Unselected
           /\ allDDLJobs[k] \in Range(ddlJobs)

\* The alias-set scan of one target: the jobs of its kind are visited in the
\* order of jobs, a job is selected when its source id or its resulting name
\* is in the sets, and a selected job adds its ids and its name to them.
SourceID(job, kind) == IF kind = "db" THEN job.SchemaID ELSE job.TableID
ResultIDs(job, kind) ==
    IF kind = "db" THEN {job.SchemaID} ELSE {job.TableID, job.TableInfo[1].ID}
ResultName(job, kind) ==
    IF kind = "db" THEN job.DBInfo[1].Name ELSE job.TableInfo[1].Name
OfKind(job, kind) == IF kind = "db" THEN IsDBJob(job) ELSE IsTableJob(job)

RECURSIVE AliasScan(_, _, _, _)
AliasScan(jobs, kind, ids, names) ==
    IF jobs = <<>> THEN {}
    ELSE LET job == Head(jobs)
             hit == /\ OfKind(job, kind)
                    /\ SourceID(job, kind) \in ids \/ ResultName(job, kind) \in names
         IN IF hit
            THEN {job} \cup AliasScan(Tail(jobs), kind,
                                      ids \cup ResultIDs(job, kind),
                                      names \cup {ResultName(job, kind)})
            ELSE AliasScan(Tail(jobs), kind, ids, names)

\* The jobs the reference scan selects for the targets when it visits the
\* history in the given order of schema versions.
ReferenceSelection(order) ==
    LET jobs == SortSlice(allDDLJobs, order)
    IN UNION {AliasScan(jobs, "db", {db.ID}, {db.Name}) : db \in TargetDBs}
           \cup UNION {AliasScan(jobs, "table", {t.Info.ID}, {t.Info.Name}) :
                           t \in TargetTables}

\* C19 as stated: FilterDDLJobs selects the jobs the reference scan selects
\* when it visits the history in ascending schema-version order.
C19_EqualsAscendingScan ==
    ddlPc = "filtered" => Range(ddlJobs) = ReferenceSelection("asc")

\* C19 amended: FilterDDLJobs selects the jobs the reference scan selects when it
\* visits the history in descending schema-version order, newest job first.
C19_EqualsDescendingScan ==
    ddlPc = "filtered" => Range(ddlJobs) = ReferenceSelection("desc")

\* A filtered history for which the direction of the scan matters.
C19_Witness ==
    /\ ddlPc = "filtered"
    /\ ddlJobs # <<>>
    /\ ReferenceSelection("asc") # ReferenceSelection("desc")

\* ------------------------------------------------- RestoreFiles, continued
\* The tasks of the call whose Import call has not returned.
ImportsInFlight == TasksAt({"import"})

\* The workers that tasks hold: tasks of the call that have not finished and
\* tasks of earlier calls still before their updateCh send.
WorkersHeld ==
    Cardinality({f \in Files : taskPc[f] \notin {"none", "done"}}) + lingering

\* C16: the Import calls in flight never exceed the width of the pool, no
\* more tasks hold a worker than the pool has, and the dispatch loop can hand
\* over its next file exactly when fewer tasks than that are running.
C16_PoolWidthBoundsImports ==
    /\ Cardinality(ImportsInFlight) <= poolWidth
    /\ WorkersHeld <= poolWidth
    /\ (mainPc = "dispatch" /\ dispIdx < files) =>
           (ENABLED Apply <=> WorkersHeld < poolWidth)

\* The dispatch loop is blocked in Apply with files left to hand over, while
\* as many Import calls as the pool is wide are in flight.
C16_Witness ==
    /\ mainPc = "dispatch"
    /\ dispIdx < files
    /\ Cardinality(ImportsInFlight) = poolWidth
    /\ ~ENABLED Apply

\* C17: a call after the first starts with rc.ctx not cancelled; when its
\* Imports all succeed it returns nil with one progress signal for each file,
\* and when one of its Imports fails it returns the error.
C17_CancellationScopedToCall ==
    callIdx >= 2 =>
        /\ ~ctxAtStart
        /\ (Returned /\ AllSettled /\ AllImportsOK) =>
               ret = "nil" /\ \A f \in Batch : updates[f] = 1
        /\ (Returned /\ SomeImportFailed) => ret = "err"

\* C18: while the call is on its failure path, that is from its rc.cancel()
\* until it returns, no Import call of the batch returns a result: no Import
\* is started once the cancellation has been triggered.
C18_NoImportAfterCancel ==
    [][mainPc = "wait" => importRes' = importRes]_vars

\* ------------------------------------------------------------ CreateTables
CtReturned == ctRet.err # "none"

\* An iteration did not get the schema of its table back: CreateTable or
\* GetTableSchema failed.
CtFailed == Len(ctSchemas) < ctIdx

\* The rules of rs that rewrite table.
RulesOf(rs, table) == SelectSeq(rs, LAMBDA r : r.Old = table.ID)

\* C15: a nil error comes with one new table info for each table, the i-th
\* being the schema read back for tables[i], and with the Table rules and
\* the Data rules of the tables in the order of the tables.
C15_AccumulatedInInputOrder ==
    ctRet.err = "nil" =>
        LET rules == ctRet.rules[1]
            newTables == ctRet.tables[1]
        IN /\ Len(newTables) = Len(ctTables)
           /\ \A i \in DOMAIN ctTables :
                  /\ newTables[i] = ctSchemas[i]
                  /\ newTables[i].Name = ctTables[i].Name
                  /\ RulesOf(rules.Table, ctTables[i]) =
                         GetRewriteRules(newTables[i], ctTables[i], ctNewTS).Table
                  /\ RulesOf(rules.Data, ctTables[i]) =
                         GetRewriteRules(newTables[i], ctTables[i], ctNewTS).Data
           /\ \A rs \in {rules.Table, rules.Data} :
                  \A p, q \in DOMAIN rs : p < q => rs[p].Old <= rs[q].Old

\* CreateTables returned nil for three tables, one of them with an index.
C15_Witness ==
    /\ ctRet.err = "nil"
    /\ Len(ctTables) >= 3
    /\ Len(ctRet.rules[1].Table) > Len(ctTables)

\* C20: a failure of CreateTable or GetTableSchema for table k ends the call
\* with the error, a nil rule set and a nil table list; the tables before k
\* stay created, table k is created if only its read-back failed, and no
\* table after k is created.  An error is returned for no other reason.
C20_FailureAbortsBatch ==
    /\ CtFailed =>
           /\ ctPc = "returned"
           /\ ctRet = [rules |-> <<>>, tables |-> <<>>, err |-> "err"]
           /\ Len(ctSchemas) = ctIdx - 1
           /\ Len(ctCreated) \in {ctIdx - 1, ctIdx}
           /\ \A i \in DOMAIN ctCreated : ctCreated[i] = ctTables[i].Name
    /\ ctRet.err = "err" => CtFailed

\* The second of three tables failed: one table before it and one after it.
C20_Witness ==
    /\ CtFailed
    /\ ctIdx = 2
    /\ Len(ctTables) >= 3
    /\ ctCreated # <<>>

\* ---------------------------------------------- RestoreFiles: errCh, updateCh
\* The deferred close(errCh) has run: the call has returned.
ErrChClosed == callIdx >= 1 /\ mainPc = "idle"

\* The tasks of the call that have been handed to the pool and have not yet
\* sent on errCh.
TasksBeforeSend == TasksAt({"import", "select"})

\* C21: errCh never holds more values than its capacity; a task that is at
\* its send finds room in errCh, so the send does not block; and once errCh
\* is closed every task handed to the pool has sent its one value, so no
\* send hits a closed channel.  A call that returned from the setSpeedLimit
\* error path handed no task to the pool.
C21_SendNeitherBlocksNorPanics ==
    /\ Len(errCh) <= ErrChCap(files)
    /\ \A f \in TasksBeforeSend : Len(errCh) < ErrChCap(files)
    /\ ErrChClosed =>
           /\ TasksBeforeSend = {}
           /\ \A f \in Files : taskPc[f] # "none" => sent[f] = 1
           /\ dispIdx < files => \A f \in Files : taskPc[f] = "none"

\* A call of two files returned its error after wg.Wait() while a value sent
\* by the other task was still buffered in errCh.
C21_Witness ==
    /\ ErrChClosed
    /\ ret = "err"
    /\ files >= 2
    /\ dispIdx = files
    /\ errCh # <<>>

\* C23: a file whose Import returned an error produces no progress signal on
\* updateCh, so a batch sends at most as many signals as it has files whose
\* Import succeeded.
C23_NoSignalForFailedImport ==
    /\ \A f \in Files : importRes[f] = "err" => updates[f] = 0
    /\ Cardinality({f \in Files : updates[f] > 0})
           <= Cardinality({f \in Files : importRes[f] = "nil"})

\* ------------------------------------------- ValidateChecksum, termination
\* C22: every checksum task that was started eventually finishes, and the
\* dispatching goroutine eventually passes wg.Wait() and closes errCh, also
\* when ValidateChecksum has returned an error.
C22_EveryTaskEventuallyFinishes ==
    <>(/\ ckDispPc = "closed"
       /\ \A i \in 1..ckN : ckTaskPc[i] = "done")

\* ------------------------------------------------ FilterDDLJobs, continued
\* The ids the database of a target table has held: its id and the SchemaID
\* of every database job selected for it.
DBAliasIDs(db) ==
    {db.ID} \cup {SelectedForDB(allDDLJobs, db)[i].SchemaID :
                      i \in DOMAIN SelectedForDB(allDDLJobs, db)}

\* C24: every table job selected for a target table is a job on the database
\* of that table or on a former identity of it: a job on a table of the same
\* name in another database is not selected.
C24_TableJobsOfTargetDatabase ==
    ddlPc = "filtered" =>
        \A table \in TargetTables :
            \A job \in Range(SelectedForTable(allDDLJobs, table)) :
                job.SchemaID \in DBAliasIDs(table.Db)

RECURSIVE InVersionOrder(_)
\* The jobs of S as a sequence in ascending schema-version order.
InVersionOrder(S) ==
    IF S = {} THEN <<>>
    ELSE LET job == CHOOSE x \in S :
                        \A y \in S : x.SchemaVersion <= y.SchemaVersion
         IN <<job>> \o InVersionOrder(S \ {job})

\* C25: for histories with pairwise distinct schema versions the output of
\* FilterDDLJobs is the output it gives for the same set of jobs arranged
\* in ascending version order, whatever the order of the slice it was
\* called with; and the slice is left holding the same jobs, every one once
\* and unchanged, in descending schema-version order.
C25_OutputIndependentOfInputOrder ==
    ddlPc = "filtered" =>
        /\ ddlJobs = FilterDDLJobs(InVersionOrder(Range(ddlInput)), ddlTables)
        /\ Len(allDDLJobs) = Len(ddlInput)
        /\ Range(allDDLJobs) = Range(ddlInput)
        /\ \A i, j \in DOMAIN allDDLJobs :
               i < j => allDDLJobs[i].SchemaVersion > allDDLJobs[j].SchemaVersion

\* FilterDDLJobs was called with three jobs in neither ascending nor
\* descending order and selected at least two of them.
C25_Witness ==
    /\ ddlPc = "filtered"
    /\ Len(ddlInput) >= 3
    /\ ddlInput[1].SchemaVersion < ddlInput[2].SchemaVersion
    /\ ddlInput[2].SchemaVersion > ddlInput[3].SchemaVersion
    /\ Len(ddlJobs) >= 2

====
